---------------------------- MODULE Spec2Model ----------------------------
(***************************************************************************)
(* Verification model of the ECI signature monitor.                        *)
(*                                                                         *)
(* Part I  models the PostgreSQL server variant (src/unnamed/part_001):    *)
(*         the run coordinator runMonitor() with its isMonitorRunning      *)
(*         guard, the three triggers that invoke it (the cron tick, the    *)
(*         GET /monitor handler, the start-up setTimeout) and every await  *)
(*         of one cycle.                                                   *)
(* Part II models the two-file GitHub server variant (src/index.js):       *)
(*         runMonitor() without a guard, saveLatestToGitHub and            *)
(*         addToHistoryOnGitHub run under Promise.all, and the             *)
(*         read-SHA / PUT sequence of updateGitHubFile.                    *)
(* Part III models the serverless handler (src/unnamed/part_002).          *)
(* Part IV models the arithmetic of one cycle: progress, required pace,    *)
(*         observed pace, on-track flags and trend; SpecCycles runs it     *)
(*         over successive cycles that fill an empty table.                *)
(*                                                                         *)
(* JavaScript runs one continuation at a time: an action is the code that  *)
(* runs between two awaits.                                                *)
(***************************************************************************)
EXTENDS Integers, Sequences, FiniteSets

\* ------------------------------------------------------------------ bounds
\* the wall clock runs from 1 to MaxClock
MaxClock == 3
\* no new cycle is triggered once errorCount has reached MaxErrors
MaxErrors == 2
\* no new cycle is triggered once the table holds MaxRows rows
MaxRows == 3

\* the value of `let lastSuccessfulRun = null`
NULL == -1

\* the callers of runMonitor(): the setTimeout of app.listen, the cron
\* callback and the GET /monitor handler
Triggers == {"startup", "cron", "manual"}

VARIABLES
    \* ---- Part I: src/unnamed/part_001
    isMonitorRunning,   \* let isMonitorRunning
    lastSuccessfulRun,  \* let lastSuccessfulRun (NULL or a clock value)
    errorCount,         \* let errorCount
    started,            \* whether the start-up setTimeout has fired
    clock,              \* the wall clock read by new Date()
    rows,               \* table eci_data: the timestamp column, in insertion order
    pc,                 \* per trigger: the await its runMonitor() call is suspended at
    timer,              \* per trigger: the abort timer that is armed
    deadline,           \* per trigger: whether the local `deadline` is non-null
    now,                \* per trigger: the local `now`
    performanceMetrics, \* per trigger: which return of calculateRatesAndPerformance
    logged,             \* per trigger: the last status line runMonitor() printed
    promise             \* per trigger: the state of the promise runMonitor() returned

serverVars == <<isMonitorRunning, lastSuccessfulRun, errorCount, started, clock,
                rows, pc, timer, deadline, now, performanceMetrics, logged, promise>>

ServerInit ==
    /\ isMonitorRunning = FALSE
    /\ lastSuccessfulRun = NULL
    /\ errorCount = 0
    /\ started = FALSE
    /\ clock = 1
    \* the table outlives the process: it is empty on the first start and
    \* holds earlier rows (timestamp 0) after a restart
    /\ rows \in {<<>>, <<0>>}
    /\ pc = [i \in Triggers |-> "idle"]
    /\ timer = [i \in Triggers |-> "none"]
    /\ deadline = [i \in Triggers |-> FALSE]
    /\ now = [i \in Triggers |-> NULL]
    /\ performanceMetrics = [i \in Triggers |-> "none"]
    /\ logged = [i \in Triggers |-> "none"]
    /\ promise = [i \in Triggers |-> "none"]

\* new Date() returns a later instant as time passes
Tick ==
    /\ clock < MaxClock
    /\ clock' = clock + 1
    /\ UNCHANGED <<isMonitorRunning, lastSuccessfulRun, errorCount, started, rows,
                   pc, timer, deadline, now, performanceMetrics, logged, promise>>

\* the locals of a runMonitor() call that has returned
DropLocals(i) ==
    /\ timer' = [timer EXCEPT ![i] = "none"]
    /\ deadline' = [deadline EXCEPT ![i] = FALSE]
    /\ now' = [now EXCEPT ![i] = NULL]
    /\ performanceMetrics' = [performanceMetrics EXCEPT ![i] = "none"]

\* a skip that is counted as an error
SkipBranchCounts(i) ==
    /\ logged' = [logged EXCEPT ![i] = "skipped"]
    /\ promise' = [promise EXCEPT ![i] = "fulfilled"]
    /\ errorCount' = errorCount + 1
    /\ UNCHANGED <<isMonitorRunning, lastSuccessfulRun, clock, rows,
                   pc, timer, deadline, now, performanceMetrics>>

\* if (isMonitorRunning) { log 'already running, skipping'; return; }
SkipBranch(i) ==
    /\ logged' = [logged EXCEPT ![i] = "skipped"]
    /\ promise' = [promise EXCEPT ![i] = "fulfilled"]
    /\ UNCHANGED <<isMonitorRunning, lastSuccessfulRun, errorCount, clock, rows,
                   pc, timer, deadline, now, performanceMetrics>>

\* isMonitorRunning = true; try { arm the 30 s abort timer; await fetch(progression)
EnterBranch(i) ==
    /\ isMonitorRunning' = TRUE
    /\ logged' = [logged EXCEPT ![i] = "running"]
    /\ promise' = [promise EXCEPT ![i] = "pending"]
    /\ pc' = [pc EXCEPT ![i] = "fetchCounter"]
    /\ timer' = [timer EXCEPT ![i] = "counter"]
    /\ UNCHANGED <<lastSuccessfulRun, errorCount, clock, rows, deadline, now,
                   performanceMetrics>>

\* a runMonitor() that enters whatever the flag says
RunMonitorNoGuard(i) == EnterBranch(i)

\* runMonitor() from its call to its first await (or to its return)
RunMonitor(i) ==
    IF isMonitorRunning THEN SkipBranch(i) ELSE EnterBranch(i)

\* a trigger calls runMonitor(): the start-up timer once, the cron tick and
\* GET /monitor whenever their previous call has returned
Trigger(i) ==
    /\ pc[i] = "idle"
    /\ errorCount < MaxErrors
    /\ Len(rows) < MaxRows
    /\ IF i = "startup" THEN ~started /\ started' = TRUE ELSE UNCHANGED started
    /\ RunMonitor(i)

\* a finally block that does not clear the flag
FinallyMissing == UNCHANGED isMonitorRunning

\* finally { isMonitorRunning = false; }
Finally == isMonitorRunning' = FALSE

\* a catch block that rethrows
CatchBlockRethrow(i) ==
    /\ errorCount' = errorCount + 1
    /\ logged' = [logged EXCEPT ![i] = "error"]
    /\ promise' = [promise EXCEPT ![i] = "rejected"]
    /\ UNCHANGED lastSuccessfulRun

\* a catch block that also stamps the run
CatchBlockStamps(i) ==
    /\ errorCount' = errorCount + 1
    /\ logged' = [logged EXCEPT ![i] = "error"]
    /\ promise' = [promise EXCEPT ![i] = "fulfilled"]
    /\ lastSuccessfulRun' = clock

\* catch (error) { errorCount++; console.error('Monitor error ...') }
\* nothing is rethrown, so the promise of runMonitor() fulfils
CatchBlock(i) ==
    /\ errorCount' = errorCount + 1
    /\ logged' = [logged EXCEPT ![i] = "error"]
    /\ promise' = [promise EXCEPT ![i] = "fulfilled"]
    /\ UNCHANGED lastSuccessfulRun

\* an exception inside the try block of runMonitor(): catch, finally, return.
\* A timer left armed by the throw later aborts a settled request: no effect.
Thrown(i) ==
    /\ CatchBlock(i)
    /\ Finally
    /\ pc' = [pc EXCEPT ![i] = "idle"]
    /\ DropLocals(i)
    /\ UNCHANGED <<started, clock, rows>>

\* await fetch(progression) settles: a response (ok or not), or a rejection
CounterResponse(i, ok) ==
    /\ pc[i] = "fetchCounter"
    /\ IF ok
       THEN \* clearTimeout(timeoutId); await progressResponse.json()
            /\ pc' = [pc EXCEPT ![i] = "counterBody"]
            /\ timer' = [timer EXCEPT ![i] = "none"]
            /\ UNCHANGED <<isMonitorRunning, lastSuccessfulRun, errorCount, started,
                           clock, rows, deadline, now, performanceMetrics, logged,
                           promise>>
       ELSE \* throw new Error('Progress API failed'), or the fetch rejected
            Thrown(i)

\* setTimeout(() => controller.abort(), 30000) fires: the fetch rejects
CounterTimeout(i) ==
    /\ pc[i] = "fetchCounter"
    /\ timer[i] = "counter"
    /\ Thrown(i)

\* await progressResponse.json() settles; on success arm the 15 s timer and
\* await fetch(description)
CounterBody(i, ok) ==
    /\ pc[i] = "counterBody"
    /\ IF ok
       THEN /\ pc' = [pc EXCEPT ![i] = "fetchInfo"]
            /\ timer' = [timer EXCEPT ![i] = "info"]
            /\ UNCHANGED <<isMonitorRunning, lastSuccessfulRun, errorCount, started,
                           clock, rows, deadline, now, performanceMetrics, logged,
                           promise>>
       ELSE Thrown(i)

\* the description part is over with `deadline` set or null: const now = new
\* Date(); the deadline statistics; calculateRatesAndPerformance() awaits its
\* SELECT
AfterInfo(i, dl) ==
    /\ deadline' = [deadline EXCEPT ![i] = dl]
    /\ now' = [now EXCEPT ![i] = clock]
    /\ pc' = [pc EXCEPT ![i] = "calcRates"]
    /\ timer' = [timer EXCEPT ![i] = "none"]
    /\ UNCHANGED <<isMonitorRunning, lastSuccessfulRun, errorCount, started, clock,
                   rows, performanceMetrics, logged, promise>>

\* await fetch(description) settles
InfoResponse(i, ok) ==
    /\ pc[i] = "fetchInfo"
    /\ IF ok
       THEN \* clearTimeout(infoTimeoutId); await infoResponse.json()
            /\ pc' = [pc EXCEPT ![i] = "infoBody"]
            /\ timer' = [timer EXCEPT ![i] = "none"]
            /\ UNCHANGED <<isMonitorRunning, lastSuccessfulRun, errorCount, started,
                           clock, rows, deadline, now, performanceMetrics, logged,
                           promise>>
       ELSE \* not ok: deadline stays null; rejected: the inner catch warns
            AfterInfo(i, FALSE)

\* setTimeout(() => infoController.abort(), 15000) fires: the inner catch warns
InfoTimeout(i) ==
    /\ pc[i] = "fetchInfo"
    /\ timer[i] = "info"
    /\ AfterInfo(i, FALSE)

\* await infoResponse.json() settles: a closing date, or the inner catch
InfoBody(i, ok) ==
    /\ pc[i] = "infoBody"
    /\ AfterInfo(i, ok)

\* a calculateRatesAndPerformance that inserts a row of its own
CalcRatesWrites(i, ok) ==
    /\ pc[i] = "calcRates"
    /\ performanceMetrics' = [performanceMetrics EXCEPT
                                ![i] = IF ok THEN "computed" ELSE "fallback"]
    /\ pc' = [pc EXCEPT ![i] = "insert"]
    /\ rows' = Append(rows, now[i])
    /\ UNCHANGED <<isMonitorRunning, lastSuccessfulRun, errorCount, started,
                   clock, timer, deadline, now, logged, promise>>

\* a calculateRatesAndPerformance without its own catch
CalcRatesThrows(i, ok) ==
    /\ pc[i] = "calcRates"
    /\ IF ok
       THEN /\ performanceMetrics' = [performanceMetrics EXCEPT
                                         ![i] = "computed"]
            /\ pc' = [pc EXCEPT ![i] = "insert"]
            /\ UNCHANGED <<isMonitorRunning, lastSuccessfulRun, errorCount,
                           started, clock, rows, timer, deadline, now, logged,
                           promise>>
       ELSE Thrown(i)

\* the SELECT of calculateRatesAndPerformance() settles: its try returns the
\* computed rates, its catch returns the all-null rates; runMonitor() then
\* awaits the INSERT
CalcRates(i, ok) ==
    /\ pc[i] = "calcRates"
    /\ performanceMetrics' = [performanceMetrics EXCEPT
                                ![i] = IF ok THEN "computed" ELSE "fallback"]
    /\ pc' = [pc EXCEPT ![i] = "insert"]
    /\ UNCHANGED <<isMonitorRunning, lastSuccessfulRun, errorCount, started, clock,
                   rows, timer, deadline, now, logged, promise>>

\* a success path that keeps the error counter
OnSuccessKeepsCount(i) ==
    /\ lastSuccessfulRun' = now[i]
    /\ errorCount' = errorCount
    /\ logged' = [logged EXCEPT ![i] = "saved"]
    /\ promise' = [promise EXCEPT ![i] = "fulfilled"]

\* a success path that stamps the time of the success, not of the capture
OnSuccessStampsLater(i) ==
    /\ lastSuccessfulRun' = clock
    /\ errorCount' = 0
    /\ logged' = [logged EXCEPT ![i] = "saved"]
    /\ promise' = [promise EXCEPT ![i] = "fulfilled"]

\* lastSuccessfulRun = now; errorCount = 0; console.log('Saved ...')
OnSuccess(i) ==
    /\ lastSuccessfulRun' = now[i]
    /\ errorCount' = 0
    /\ logged' = [logged EXCEPT ![i] = "saved"]
    /\ promise' = [promise EXCEPT ![i] = "fulfilled"]

\* await pool.query(INSERT ...) settles
Insert(i, ok) ==
    /\ pc[i] = "insert"
    /\ IF ok
       THEN /\ rows' = Append(rows, now[i])
            /\ OnSuccess(i)
            /\ Finally
            /\ pc' = [pc EXCEPT ![i] = "idle"]
            /\ DropLocals(i)
            /\ UNCHANGED <<started, clock>>
       ELSE Thrown(i)

\* app.get('/monitor'): try { await runMonitor(); res.json({success: true})
\* } catch { res.status(500).json({success: false, error, timestamp}) }: the
\* answer follows from how the promise of runMonitor() settled
MonitorResponse ==
    CASE promise["manual"] = "fulfilled" -> "success"
      [] promise["manual"] = "rejected" -> "failure"
      [] OTHER -> "none"

\* ----------------------------------------------------------------------
\* Part II: src/index.js
\* ----------------------------------------------------------------------

\* no new cycle is triggered once MaxCycles timestamps have been handed out
MaxCycles == 3
\* stands for the 10,000 entries addToHistoryOnGitHub keeps
RetentionCap == 2

\* two overlapping callers of runMonitor(): the cron callback and the GET
\* /monitor handler (the start-up setTimeout is a third caller of the same
\* kind)
Callers == {"cron", "manual"}

VARIABLES
    configured,  \* GITHUB_TOKEN && REPO_OWNER && REPO_NAME
    ghLatest,    \* eci_data_latest.json: [sha, content]; sha 0: no such file
    ghHistory,   \* eci_data_history.json: [sha, content]; sha 0: no such file
    gpc,         \* per caller: where its runMonitor() call is suspended
    rec,         \* per caller: statsData, named by its timestamp
    lpc,         \* per caller: where saveLatestToGitHub is suspended
    lsha,        \* per caller: `sha` of updateGitHubFile(latest); 0: null
    lout,        \* per caller: how saveLatestToGitHub ended
    hpc,         \* per caller: where addToHistoryOnGitHub is suspended
    hsha,        \* per caller: `sha` of updateGitHubFile(history); 0: null
    hread,       \* per caller: how the read of the stored history ended
    hnew,        \* per caller: existingHistory after push and trim
    hout,        \* per caller: how addToHistoryOnGitHub ended
    glogged,     \* per caller: the last status line runMonitor() printed
    statsResponse \* the last answer of GET /history-stats

ghVars == <<configured, ghLatest, ghHistory, gpc, rec, lpc, lsha, lout, hpc, hsha,
            hread, hnew, hout, glogged, statsResponse>>


NoFile == [sha |-> 0, content |-> <<>>]

GitHubInit ==
    /\ configured \in BOOLEAN
    /\ ghLatest = NoFile
    /\ ghHistory = NoFile
    /\ gpc = [j \in Callers |-> "idle"]
    /\ rec = [j \in Callers |-> 0]
    /\ lpc = [j \in Callers |-> "idle"]
    /\ lsha = [j \in Callers |-> 0]
    /\ lout = [j \in Callers |-> "none"]
    /\ hpc = [j \in Callers |-> "idle"]
    /\ hsha = [j \in Callers |-> 0]
    /\ hread = [j \in Callers |-> "none"]
    /\ hnew = [j \in Callers |-> <<>>]
    /\ hout = [j \in Callers |-> "none"]
    /\ glogged = [j \in Callers |-> "none"]
    /\ statsResponse = "none"

\* the calls that have not yet executed `const now = new Date()`
BeforeStamp == {j \in Callers : gpc[j] \in {"fetchCounter", "fetchInfo"}}

\* a caller calls runMonitor(): try { await fetch(progression)
GhTrigger(j) ==
    /\ gpc[j] = "idle"
    /\ clock + Cardinality(BeforeStamp) <= MaxCycles
    /\ gpc' = [gpc EXCEPT ![j] = "fetchCounter"]
    /\ glogged' = [glogged EXCEPT ![j] = "running"]
    /\ rec' = [rec EXCEPT ![j] = 0]
    /\ lout' = [lout EXCEPT ![j] = "none"]
    /\ hout' = [hout EXCEPT ![j] = "none"]
    /\ lpc' = [lpc EXCEPT ![j] = "idle"]
    /\ hpc' = [hpc EXCEPT ![j] = "idle"]
    /\ hread' = [hread EXCEPT ![j] = "none"]
    /\ UNCHANGED <<statsResponse, configured, ghLatest, ghHistory, lsha, hsha, hnew, clock>>

\* fetch(progression) and progressResponse.json() settle: the data, or the
\* outer catch logs 'Monitor error' and runMonitor() returns
GhCounter(j, ok) ==
    /\ gpc[j] = "fetchCounter"
    /\ IF ok
       THEN /\ gpc' = [gpc EXCEPT ![j] = "fetchInfo"]
            /\ UNCHANGED glogged
       ELSE /\ gpc' = [gpc EXCEPT ![j] = "idle"]
            /\ glogged' = [glogged EXCEPT ![j] = "error"]
    /\ UNCHANGED <<statsResponse, configured, ghLatest, ghHistory, rec, lpc, lsha, lout, hpc,
                   hsha, hread, hnew, hout, clock>>

\* what the description source gave: a DD/MM/YYYY closing date; none (the
\* fetch rejected, answered non-2xx, or the field is missing: the inner catch
\* warns and deadline stays null); or a closing date string of another shape,
\* for which new Date(...) is an Invalid Date
ClosingDates == {"valid", "absent", "malformed"}

\* Promise.all starts saveLatestToGitHub and addToHistoryOnGitHub, each
\* running to its first await, or returning at once when the credentials are
\* missing
StartSaving(j) ==
    /\ rec' = [rec EXCEPT ![j] = clock]
    /\ clock' = clock + 1
    /\ gpc' = [gpc EXCEPT ![j] = "saving"]
    /\ UNCHANGED glogged
    /\ IF configured
       THEN /\ lpc' = [lpc EXCEPT ![j] = "getSha"]
            /\ hpc' = [hpc EXCEPT ![j] = "getContent"]
            /\ UNCHANGED <<lout, hout>>
       ELSE /\ lpc' = [lpc EXCEPT ![j] = "done"]
            /\ hpc' = [hpc EXCEPT ![j] = "done"]
            /\ lout' = [lout EXCEPT ![j] = "skipped"]
            /\ hout' = [hout EXCEPT ![j] = "skipped"]

\* an Invalid Date is an object, so `if (deadline)` is taken and
\* deadline.toISOString() throws a RangeError: the outer catch logs 'Monitor
\* error' and runMonitor() returns
InvalidDateThrows(j) ==
    /\ gpc' = [gpc EXCEPT ![j] = "idle"]
    /\ glogged' = [glogged EXCEPT ![j] = "error"]
    /\ UNCHANGED <<rec, clock, lpc, hpc, lout, hout>>

\* the description part is over; const now = new Date(); the deadline
\* statistics and statsData are built
AfterDescription(j, d) ==
    IF d = "malformed" THEN InvalidDateThrows(j) ELSE StartSaving(j)

\* the description fetch and its body settle
GhInfo(j, d) ==
    /\ gpc[j] = "fetchInfo"
    /\ AfterDescription(j, d)
    /\ UNCHANGED <<statsResponse, configured, ghLatest, ghHistory, lsha, hsha,
                   hread, hnew>>

\* updateGitHubFile, first half: the GET of the current SHA; any failure
\* leaves sha = null
ReadSha(file, ok) == IF ok THEN file.sha ELSE 0

\* the contents API on PUT: it writes when the SHA sent names the stored blob
\* (none sent for a new file), answers 409 to another SHA and 422 to a
\* missing one; the request may also fail in transport
PutStatus(file, sha, ok) ==
    IF ~ok THEN "failed"
    ELSE IF sha = file.sha THEN "saved"
    ELSE IF sha = 0 THEN "failed"
    ELSE "conflict"

\* the stored blob after the PUT
PutFile(file, sha, ok, content) ==
    IF PutStatus(file, sha, ok) = "saved"
    THEN [sha |-> file.sha + 1, content |-> content]
    ELSE file

\* saveLatestToGitHub: updateGitHubFile reads the SHA of eci_data_latest.json
LatestGetSha(j, ok) ==
    /\ lpc[j] = "getSha"
    /\ lsha' = [lsha EXCEPT ![j] = ReadSha(ghLatest, ok)]
    /\ lpc' = [lpc EXCEPT ![j] = "put"]
    /\ UNCHANGED <<statsResponse, configured, ghLatest, ghHistory, gpc, rec, lout, hpc, hsha,
                   hread, hnew, hout, glogged, clock>>

\* saveLatestToGitHub: the PUT settles; 'Latest data saved' or the catch
\* logs 'Latest GitHub save error'
LatestPut(j, ok) ==
    /\ lpc[j] = "put"
    /\ ghLatest' = PutFile(ghLatest, lsha[j], ok, <<rec[j]>>)
    /\ lout' = [lout EXCEPT ![j] = PutStatus(ghLatest, lsha[j], ok)]
    /\ lpc' = [lpc EXCEPT ![j] = "done"]
    /\ UNCHANGED <<statsResponse, configured, ghHistory, gpc, rec, lsha, hpc, hsha, hread, hnew,
                   hout, glogged, clock>>

\* a trim that keeps the oldest entries
TrimFromBack(h) ==
    IF Len(h) > RetentionCap THEN SubSeq(h, 1, RetentionCap) ELSE h

\* no trim at all
TrimNone(h) == h

\* existingHistory.slice(-10000) when longer than the cap
Trim(h) ==
    IF Len(h) > RetentionCap
    THEN SubSeq(h, Len(h) - RetentionCap + 1, Len(h))
    ELSE h

\* a read that hands the stored array on whatever the answer was
ExistingHistoryKeeps(file, ok) == file.content

\* getGitHubFileContent and the parse: the stored array; [] on 404, on any
\* error and on unparsable content
ExistingHistory(file, ok) ==
    IF ok /\ file.sha # 0 THEN file.content ELSE <<>>

\* what the read met: the file, a 404, or an error (logged as 'Creating new
\* history file')
ReadOutcome(file, ok) ==
    IF ~ok THEN "failed" ELSE IF file.sha = 0 THEN "absent" ELSE "found"

\* addToHistoryOnGitHub: the read of eci_data_history.json settles; push,
\* trim, stringify; updateGitHubFile starts its GET of the SHA
HistoryGetContent(j, ok) ==
    /\ hpc[j] = "getContent"
    /\ hnew' = [hnew EXCEPT
                  ![j] = Trim(Append(ExistingHistory(ghHistory, ok), rec[j]))]
    /\ hread' = [hread EXCEPT ![j] = ReadOutcome(ghHistory, ok)]
    /\ hpc' = [hpc EXCEPT ![j] = "getSha"]
    /\ UNCHANGED <<statsResponse, configured, ghLatest, ghHistory, gpc, rec, lpc, lsha, lout,
                   hsha, hout, glogged, clock>>

\* addToHistoryOnGitHub: updateGitHubFile reads the SHA of the history file
HistoryGetSha(j, ok) ==
    /\ hpc[j] = "getSha"
    /\ hsha' = [hsha EXCEPT ![j] = ReadSha(ghHistory, ok)]
    /\ hpc' = [hpc EXCEPT ![j] = "put"]
    /\ UNCHANGED <<statsResponse, configured, ghLatest, ghHistory, gpc, rec, lpc, lsha, lout,
                   hread, hnew, hout, glogged, clock>>

\* addToHistoryOnGitHub: the PUT settles; 'History updated' or the catch
\* logs 'History GitHub save error'
HistoryPut(j, ok) ==
    /\ hpc[j] = "put"
    /\ ghHistory' = PutFile(ghHistory, hsha[j], ok, hnew[j])
    /\ hout' = [hout EXCEPT ![j] = PutStatus(ghHistory, hsha[j], ok)]
    /\ hpc' = [hpc EXCEPT ![j] = "done"]
    /\ hnew' = [hnew EXCEPT ![j] = <<>>]
    /\ UNCHANGED <<statsResponse, configured, ghLatest, gpc, rec, lpc, lsha, lout, hsha, hread,
                   glogged, clock>>

\* a handler without the credentials check
HistoryStatsAnswerNoCheck(file, ok) ==
    IF ~ok THEN "error" ELSE IF file.sha = 0 THEN "noData" ELSE "stats"

\* app.get('/history-stats'): 500 'Missing GitHub credentials' when the
\* configuration is missing; else the history is read: 'No history data
\* available yet' on 404, the statistics, or 500 on any error
HistoryStatsAnswer(file, ok) ==
    IF ~configured THEN "missingCredentials"
    ELSE IF ~ok THEN "error"
    ELSE IF file.sha = 0 THEN "noData"
    ELSE "stats"

\* GET /history-stats is served
HistoryStats(ok) ==
    /\ statsResponse' = HistoryStatsAnswer(ghHistory, ok)
    /\ UNCHANGED <<configured, ghLatest, ghHistory, gpc, rec, lpc, lsha, lout,
                   hpc, hsha, hread, hnew, hout, glogged, clock>>

\* a join that reports the cycle as failed when one of the writes failed
GhJoinFailsFast(j) ==
    /\ gpc[j] = "saving"
    /\ lpc[j] = "done"
    /\ hpc[j] = "done"
    /\ glogged' = [glogged EXCEPT
                     ![j] = IF lout[j] \in {"conflict", "failed"}
                               \/ hout[j] \in {"conflict", "failed"}
                            THEN "error" ELSE "updated"]
    /\ gpc' = [gpc EXCEPT ![j] = "idle"]
    /\ lsha' = [lsha EXCEPT ![j] = 0]
    /\ hsha' = [hsha EXCEPT ![j] = 0]
    /\ UNCHANGED <<statsResponse, configured, ghLatest, ghHistory, rec, lpc,
                   lout, hpc, hread, hnew, hout, clock>>

\* await Promise.all([...]) resolves (neither function rejects);
\* console.log('Updated ...'); runMonitor() returns
GhJoin(j) ==
    /\ gpc[j] = "saving"
    /\ lpc[j] = "done"
    /\ hpc[j] = "done"
    /\ glogged' = [glogged EXCEPT ![j] = "updated"]
    /\ gpc' = [gpc EXCEPT ![j] = "idle"]
    /\ lsha' = [lsha EXCEPT ![j] = 0]
    /\ hsha' = [hsha EXCEPT ![j] = 0]
    /\ UNCHANGED <<statsResponse, configured, ghLatest, ghHistory, rec, lpc, lout, hpc, hread,
                   hnew, hout, clock>>

\* ----------------------------------------------------------------------
\* Part III: src/unnamed/part_002, the serverless handler
\* ----------------------------------------------------------------------

\* the handler stamps at most MaxInvocations records
MaxInvocations == 3
\* stands for the retention cap of 8,640 entries
CompleteCap == 2

\* invocations of the function that may overlap
Requests == {"a", "b"}

VARIABLES
    env,          \* process.env: "none", "tokenOnly" (GITHUB_TOKEN without
                  \* REPO_OWNER and REPO_NAME) or "full"
    slLatest,     \* eci_data_latest.json: [sha, content]; sha 0: no such file
    slComplete,   \* eci_data_complete.json: [sha, content]
    spc,          \* per request: the await its handler is suspended at
    statsData,    \* per request: [timestamp, counted]; counted is false when
                  \* progressData carried no signatureCount and goal
    sha,          \* per request: `sha` of updateGitHubFile; 0: null
    completeData, \* per request: completeData after push and splice
    res           \* per request: the answer sent, "none" before it

slVars == <<env, slLatest, slComplete, spc, statsData, sha, completeData, res>>

NoData == [timestamp |-> 0, counted |-> FALSE]

ServerlessInit ==
    /\ env \in {"none", "tokenOnly", "full"}
    /\ slLatest = NoFile
    /\ slComplete = NoFile
    /\ spc = [q \in Requests |-> "idle"]
    /\ statsData = [q \in Requests |-> NoData]
    /\ sha = [q \in Requests |-> 0]
    /\ completeData = [q \in Requests |-> <<>>]
    /\ res = [q \in Requests |-> "none"]

\* the awaits inside saveToGitHub: a request to api.github.com is in flight
StoreSteps ==
    {"latestGetSha", "latestPut", "getComplete", "completeGetSha",
     "completePut"}

\* the invocations that have not yet executed `const now = new Date()`
BeforeNow == {q \in Requests : spc[q] \in {"fetchCounter", "fetchInfo"}}

\* the platform invokes handler(req, res): it runs to the counter fetch
Invoke(q) ==
    /\ spc[q] = "idle"
    /\ clock + Cardinality(BeforeNow) <= MaxInvocations
    /\ spc' = [spc EXCEPT ![q] = "fetchCounter"]
    /\ statsData' = [statsData EXCEPT ![q] = NoData]
    /\ sha' = [sha EXCEPT ![q] = 0]
    /\ completeData' = [completeData EXCEPT ![q] = <<>>]
    /\ res' = [res EXCEPT ![q] = "none"]
    /\ UNCHANGED <<env, slLatest, slComplete, clock>>

\* how the counter fetch and progressResponse.json() settle: a 2xx body with
\* signatureCount and goal; a JSON body without them, which is what a non-2xx
\* answer carries; or a rejection (no connection, or a body that is not JSON)
CounterOutcomes == {"counts", "errorJson", "rejected"}

\* the outer catch: console.error, res.status(500).json({error})
Answer500(q) ==
    /\ res' = [res EXCEPT ![q] = "error"]
    /\ spc' = [spc EXCEPT ![q] = "idle"]

\* res.json({success: true, ...})
AnswerSuccess(q) ==
    /\ res' = [res EXCEPT ![q] = "success"]
    /\ spc' = [spc EXCEPT ![q] = "idle"]

\* the counter fetch and its body settle; progressResponse.ok is never tested
CounterSettles(q, outcome) ==
    /\ spc[q] = "fetchCounter"
    /\ IF outcome = "rejected"
       THEN Answer500(q) /\ UNCHANGED statsData
       ELSE /\ spc' = [spc EXCEPT ![q] = "fetchInfo"]
            /\ statsData' = [statsData EXCEPT
                               ![q].counted = (outcome = "counts")]
            /\ UNCHANGED res
    /\ UNCHANGED <<env, slLatest, slComplete, sha, completeData, clock>>

\* saveToGitHub up to its first await: `if (!GITHUB_TOKEN) return`; else
\* updateGitHubFile(latest) sends its GET
EnterSave(q) ==
    IF env = "none"
    THEN AnswerSuccess(q)
    ELSE spc' = [spc EXCEPT ![q] = "latestGetSha"] /\ UNCHANGED res

\* the description fetch settles (its failure is caught and warned); now is
\* taken; an Invalid Date throws at deadline.toISOString(); else statsData is
\* built and saveToGitHub is called
InfoSettles(q, d) ==
    /\ spc[q] = "fetchInfo"
    /\ IF d = "malformed"
       THEN Answer500(q) /\ UNCHANGED <<statsData, clock>>
       ELSE /\ statsData' = [statsData EXCEPT ![q].timestamp = clock]
            /\ clock' = clock + 1
            /\ EnterSave(q)
    /\ UNCHANGED <<env, slLatest, slComplete, sha, completeData>>

\* updateGitHubFile: the GET of the SHA; without REPO_OWNER and REPO_NAME the
\* URL names repos/undefined/undefined and the answer is not ok
SlReadSha(file, ok) == IF ok /\ env = "full" THEN file.sha ELSE 0

\* the stored blob after a PUT that was answered: written when the SHA sent
\* names the stored blob, left alone on 409, 422 and 404
SlPutFile(file, s, content) ==
    IF env = "full" /\ s = file.sha
    THEN [sha |-> file.sha + 1, content |-> content]
    ELSE file

\* updateGitHubFile(latest): the GET of the SHA settles, the PUT is sent
SlLatestGetSha(q, ok) ==
    /\ spc[q] = "latestGetSha"
    /\ sha' = [sha EXCEPT ![q] = SlReadSha(slLatest, ok)]
    /\ spc' = [spc EXCEPT ![q] = "latestPut"]
    /\ UNCHANGED <<env, slLatest, slComplete, statsData, completeData, res,
                   clock>>

\* updateGitHubFile(latest): the PUT settles.  Its response is not looked
\* at; a rejected fetch is caught by saveToGitHub, which logs and returns.
SlLatestPut(q, ok) ==
    /\ spc[q] = "latestPut"
    /\ IF ok
       THEN /\ slLatest' = SlPutFile(slLatest, sha[q], <<statsData[q]>>)
            /\ spc' = [spc EXCEPT ![q] = "getComplete"]
            /\ UNCHANGED res
       ELSE AnswerSuccess(q) /\ UNCHANGED slLatest
    /\ UNCHANGED <<env, slComplete, statsData, sha, completeData, clock>>

\* completeData.splice(0, completeData.length - 8640) when longer than the cap
Splice(h) ==
    IF Len(h) > CompleteCap
    THEN SubSeq(h, Len(h) - CompleteCap + 1, Len(h))
    ELSE h

\* getCompleteData: the parsed file when the answer is ok, [] otherwise
CompleteRead(file, ok) ==
    IF ok /\ env = "full" /\ file.sha # 0 THEN file.content ELSE <<>>

\* getCompleteData settles; push, splice; updateGitHubFile(complete) sends
\* its GET
SlGetComplete(q, ok) ==
    /\ spc[q] = "getComplete"
    /\ completeData' = [completeData EXCEPT
           ![q] = Splice(Append(CompleteRead(slComplete, ok), statsData[q]))]
    /\ spc' = [spc EXCEPT ![q] = "completeGetSha"]
    /\ UNCHANGED <<env, slLatest, slComplete, statsData, sha, res, clock>>

\* updateGitHubFile(complete): the GET of the SHA settles, the PUT is sent
SlCompleteGetSha(q, ok) ==
    /\ spc[q] = "completeGetSha"
    /\ sha' = [sha EXCEPT ![q] = SlReadSha(slComplete, ok)]
    /\ spc' = [spc EXCEPT ![q] = "completePut"]
    /\ UNCHANGED <<env, slLatest, slComplete, statsData, completeData, res,
                   clock>>

\* updateGitHubFile(complete): the PUT settles; saveToGitHub returns either
\* way and the handler answers success
SlCompletePut(q, ok) ==
    /\ spc[q] = "completePut"
    /\ slComplete' = IF ok
                     THEN SlPutFile(slComplete, sha[q], completeData[q])
                     ELSE slComplete
    /\ AnswerSuccess(q)
    /\ UNCHANGED <<env, slLatest, statsData, sha, completeData, clock>>

\* ----------------------------------------------------------------------
\* Part IV: the arithmetic of one cycle (src/unnamed/part_001 and
\* src/index.js): progress, required pace, observed pace, on-track flags and
\* trend
\* ----------------------------------------------------------------------

\* JavaScript numbers are modelled as exact fractions n/d in lowest terms
\* with d >= 0: d = 0 stands for Infinity (n = 1), -Infinity (n = -1) and
\* NaN (n = 0), the results of a division by zero.  def = FALSE is null (or
\* an absent field).  Rounding of doubles is not modelled.
Abs(x) == IF x < 0 THEN -x ELSE x

RECURSIVE GCD(_, _)
GCD(a, b) == IF b = 0 THEN a ELSE GCD(b, a % b)

\* the divisor that brings n/d to lowest terms
Common(n, d) == IF n = 0 /\ d = 0 THEN 1 ELSE GCD(Abs(n), Abs(d))

Sign(x) == IF x < 0 THEN -1 ELSE 1

\* the number n / d
Frac(n, d) ==
    [def |-> TRUE,
     n |-> Sign(d) * (n \div Common(n, d)),
     d |-> Abs(d) \div Common(n, d)]

null == [def |-> FALSE, n |-> 0, d |-> 1]

Whole(n) == Frac(n, 1)

\* a / b and a * b, reducing across before multiplying
Div(a, b) ==
    Frac((a.n \div Common(a.n, b.n)) * (b.d \div Common(b.d, a.d)),
         (a.d \div Common(b.d, a.d)) * (b.n \div Common(a.n, b.n)))

Mul(a, b) ==
    Frac((a.n \div Common(a.n, b.d)) * (b.n \div Common(b.n, a.d)),
         (a.d \div Common(b.n, a.d)) * (b.d \div Common(a.n, b.d)))

\* a > b, a < b and a >= b on numbers; every comparison with NaN is false
IsNaN(a) == a.n = 0 /\ a.d = 0
Greater(a, b) ==
    /\ ~IsNaN(a) /\ ~IsNaN(b)
    /\ IF a.d = 0 /\ b.d = 0 THEN a.n > b.n ELSE a.n * b.d > b.n * a.d
Less(a, b) == Greater(b, a)
AtLeast(a, b) ==
    /\ ~IsNaN(a) /\ ~IsNaN(b)
    /\ IF a.d = 0 /\ b.d = 0 THEN a.n >= b.n ELSE a.n * b.d >= b.n * a.d

\* the truthiness `x && ...` tests: null, 0 and NaN are falsy
Truthy(a) == a.def /\ a.n # 0

MsPerSecond == 1000
MsPerMinute == 1000 * 60
MsPerHour == 1000 * 60 * 60
MsPerDay == 1000 * 60 * 60 * 24

\* which program computes: the PostgreSQL server (part_001) or the GitHub
\* server (index.js)
Variants == {"postgres", "github"}

\* const progressPercent = (signatureCount / goal) * 100
ProgressPercent(signatureCount, goal) ==
    Mul(Frac(signatureCount, goal), Whole(100))

\* a remaining count that never goes below zero
RemainingClamped(signatureCount, goal) ==
    IF signatureCount > goal THEN 0 ELSE goal - signatureCount

\* const remaining = goal - signatureCount
Remaining(signatureCount, goal) == goal - signatureCount

\* a required figure that is given only for fewer than a thousand units
RequiredShortTerm(remaining, left) ==
    IF left > 0 /\ left < 1000 THEN Frac(remaining, left) ELSE null

\* a required figure that is still computed when no whole unit is left
RequiredWhenNotPast(remaining, left) ==
    IF left >= 0 THEN Frac(remaining, left) ELSE null

\* left > 0 ? remaining / left : null
Required(remaining, left) ==
    IF left > 0 THEN Frac(remaining, left) ELSE null

\* a weekly figure that divides by the weeks left
RequiredPerWeekByWeeks(variant, remaining, daysLeft) ==
    IF variant = "github" /\ daysLeft \div 7 > 0
    THEN Frac(remaining, daysLeft \div 7)
    ELSE null

\* index.js: daysLeft > 0 ? (remaining / daysLeft) * 7 : null; part_001 has
\* no weekly figure in deadlineStats nor in its table
RequiredPerWeek(variant, remaining, daysLeft) ==
    IF variant = "github" /\ daysLeft > 0
    THEN Mul(Frac(remaining, daysLeft), Whole(7))
    ELSE null

NoDeadlineStats ==
    [deadline |-> FALSE, days_remaining |-> null, required_per_week |-> null,
     required_per_day |-> null, required_per_hour |-> null,
     required_per_minute |-> null, required_per_second |-> null]

\* let deadlineStats = {...}; if (deadline) { ... }: timeRemaining is
\* deadline.getTime() - now.getTime(), each unit is floored on its own
DeadlineStats(variant, remaining, hasDeadline, timeRemaining) ==
    IF ~hasDeadline THEN NoDeadlineStats
    ELSE LET daysLeft == timeRemaining \div MsPerDay
             hoursLeft == timeRemaining \div MsPerHour
             minutesLeft == timeRemaining \div MsPerMinute
             secondsLeft == timeRemaining \div MsPerSecond
         IN  [deadline |-> TRUE,
              days_remaining |-> Whole(daysLeft),
              required_per_week |->
                  RequiredPerWeek(variant, remaining, daysLeft),
              required_per_day |-> Required(remaining, daysLeft),
              required_per_hour |-> Required(remaining, hoursLeft),
              required_per_minute |->
                  Required(remaining, minutesLeft),
              required_per_second |->
                  Required(remaining, secondsLeft)]

\* SELECT ... WHERE timestamp >= NOW() - INTERVAL '7 days' ORDER BY timestamp
Window(tbl, at) ==
    LET InWindow(r) == r.timestamp >= at - 7 * MsPerDay
    IN  SelectSeq(tbl, InWindow)

NoRates ==
    [actual_per_minute |-> null, actual_per_hour |-> null,
     actual_per_day |-> null, actual_per_week |-> null,
     on_track_daily |-> "null", on_track_hourly |-> "null",
     velocity_trend |-> "unknown"]

\* if (required && actual) flag = actual >= required
OnTrack(required, actual) ==
    IF Truthy(required) /\ Truthy(actual)
    THEN IF AtLeast(actual, required) THEN "true" ELSE "false"
    ELSE "null"

\* (last.signatures - first.signatures) / ((last.timestamp -
\* first.timestamp) / (1000 * 60 * 60)) of a sub-window
HourlyRate(w) ==
    Div(Whole(w[Len(w)].signatures - w[1].signatures),
        Frac(w[Len(w)].timestamp - w[1].timestamp, MsPerHour))

\* a classification with the bounds included
ClassifyInclusive(recentRate, previousRate) ==
    IF AtLeast(recentRate, Mul(previousRate, Frac(11, 10)))
    THEN "accelerating"
    ELSE IF AtLeast(Mul(previousRate, Frac(9, 10)), recentRate)
         THEN "slowing"
         ELSE "steady"

\* a classification with the thresholds 1.2 and 0.8
ClassifyWide(recentRate, previousRate) ==
    IF Greater(recentRate, Mul(previousRate, Frac(12, 10)))
    THEN "accelerating"
    ELSE IF Less(recentRate, Mul(previousRate, Frac(8, 10)))
         THEN "slowing"
         ELSE "steady"

\* recentRate > previousRate * 1.1, recentRate < previousRate * 0.9, else
Classify(recentRate, previousRate) ==
    IF Greater(recentRate, Mul(previousRate, Frac(11, 10)))
    THEN "accelerating"
    ELSE IF Less(recentRate, Mul(previousRate, Frac(9, 10)))
         THEN "slowing"
         ELSE "steady"

\* rows.filter(r => new Date(r.timestamp) >= new Date(Date.now() - 24h))
Last24h(w, at) ==
    LET Recent(r) == r.timestamp >= at - 24 * MsPerHour
    IN  SelectSeq(w, Recent)

\* rows.filter(r => time >= Date.now() - 48h && time < Date.now() - 24h)
Prev24h(w, at) ==
    LET Before(r) ==
            /\ r.timestamp >= at - 48 * MsPerHour
            /\ r.timestamp < at - 24 * MsPerHour
    IN  SelectSeq(w, Before)

\* the velocity trend of the window
VelocityTrend(w, at) ==
    IF Len(w) >= 4 /\ Len(Last24h(w, at)) >= 2 /\ Len(Prev24h(w, at)) >= 2
    THEN Classify(HourlyRate(Last24h(w, at)), HourlyRate(Prev24h(w, at)))
    ELSE "unknown"

\* an observed figure that is computed whatever the elapsed time
ActualUnguarded(signatureDiff, timeDiff) == Div(Whole(signatureDiff), timeDiff)

\* an observed figure rounded down to a whole number
ActualFloored(signatureDiff, timeDiff) ==
    IF Greater(timeDiff, Whole(0))
    THEN Whole((signatureDiff * timeDiff.d) \div timeDiff.n)
    ELSE null

\* if (timeDiffMinutes > 0) rates.actual_per_x = signatureDiff / timeDiffX;
\* every timeDiffX is a positive multiple of timeDiffMs
Actual(signatureDiff, timeDiff) ==
    IF Greater(timeDiff, Whole(0))
    THEN Div(Whole(signatureDiff), timeDiff)
    ELSE null

\* the try block of calculateRatesAndPerformance on the rows the SELECT
\* returned, with the clock reading `at`
RatesOf(w, at, requiredPerDay, requiredPerHour) ==
    IF Len(w) < 2 THEN NoRates
    ELSE LET timeDiffMs == w[Len(w)].timestamp - w[1].timestamp
             signatureDiff == w[Len(w)].signatures - w[1].signatures
             perDay == Actual(signatureDiff, Frac(timeDiffMs, MsPerDay))
             perHour == Actual(signatureDiff, Frac(timeDiffMs, MsPerHour))
         IN  [actual_per_minute |->
                  Actual(signatureDiff, Frac(timeDiffMs, MsPerMinute)),
              actual_per_hour |-> perHour,
              actual_per_day |-> perDay,
              actual_per_week |->
                  Actual(signatureDiff,
                         Div(Frac(timeDiffMs, MsPerDay), Whole(7))),
              on_track_daily |-> OnTrack(requiredPerDay, perDay),
              on_track_hourly |-> OnTrack(requiredPerHour, perHour),
              velocity_trend |-> VelocityTrend(w, at)]

\* the bodies the counter source may answer with: {signatureCount, goal}
SignatureCounts == {-1, 0, 1, 250000, 1000000, 1200000}
Goals == {-5, 0, 3, 1000000}

\* deadline.getTime() - now.getTime() in ms, around every unit boundary and
\* ten days ahead
TimeRemainings ==
    {-1, 0, MsPerSecond - 1, MsPerSecond, MsPerMinute - 1, MsPerMinute,
     MsPerHour - 1, MsPerHour, MsPerDay - 1, MsPerDay, 10 * MsPerDay}

\* the clock readings of calculateRatesAndPerformance: NOW() and Date.now()
\* eight, nine and fifteen days after the oldest row
T0 == 8 * MsPerDay
ClockReadings == {T0, T0 + MsPerDay, T0 + 7 * MsPerDay}

Row(t, s) == [timestamp |-> t, signatures |-> s]

\* recent hourly rates against a previous hourly rate of 100
RecentRates == {89, 90, 95, 110, 111}

\* rows of eci_data: one older than a week, two between 48 h and 24 h
\* before T0 (1000 signatures in 10 h), two in the last 24 h before T0
History(r) ==
    <<Row(0, 0), Row(T0 - 47 * MsPerHour, 1000),
      Row(T0 - 37 * MsPerHour, 2000), Row(T0 - 11 * MsPerHour, 5000),
      Row(T0 - MsPerHour, 5000 + 10 * r)>>

\* the rows of h whose index is in S, in order
Pick(h, S) ==
    LET Chosen(r) == \E n \in S : h[n] = r
    IN  SelectSeq(h, Chosen)

\* the tables the SELECT may meet: every selection of History(95), the
\* full history for each recent rate, one hour with 600 new signatures, two
\* rows of one instant, and an hour without a new signature
Tables ==
    {Pick(History(95), S) : S \in SUBSET (1..5)}
        \cup {History(r) : r \in RecentRates}
        \cup {<<Row(T0 - 2 * MsPerHour, 1000), Row(T0 - MsPerHour, 1600)>>,
              <<Row(T0 - MsPerHour, 5), Row(T0 - MsPerHour, 9)>>,
              <<Row(T0 - 2 * MsPerHour, 7), Row(T0 - MsPerHour, 7)>>}

VARIABLES
    variant,         \* which program runs the cycle
    progressData,    \* the parsed body of the counter response
    hasDeadline,     \* deadline is not null
    timeRemaining,   \* deadline.getTime() - now.getTime()
    eciData,         \* table eci_data: rows [timestamp, signatures]
    apc,             \* how far the cycle's arithmetic has come
    progressPercent, \* const progressPercent
    remaining,       \* const remaining
    deadlineStats,   \* let deadlineStats
    rates,           \* what calculateRatesAndPerformance returned
    ratesAt,         \* the clock reading of that call
    ratesAgain,      \* what a second call on the same table returned
    againAt,         \* the clock reading of the second call
    record,          \* the values handed to the store
    nowTime,         \* const now = new Date(), as now.getTime()
    inserted         \* the rows the cycles have inserted: [timestamp, rates]

anVars == <<variant, progressData, hasDeadline, timeRemaining, eciData, apc,
            progressPercent, remaining, deadlineStats, rates, ratesAt,
            ratesAgain, againAt, record, nowTime, inserted>>

NoRecord ==
    [signatures |-> 0, goal |-> 0, progress_percent |-> null,
     required_per_day |-> null, on_track_daily |-> "null"]

\* the cycle has fetched body b, met the deadline dl and the table tbl
AnalyticsStart(v, b, dl, tbl) ==
    /\ variant = v
    /\ progressData = b
    /\ hasDeadline = dl.present
    /\ timeRemaining = dl.ms
    /\ eciData = tbl
    /\ apc = "fetched"
    /\ progressPercent = null
    /\ remaining = 0
    /\ deadlineStats = NoDeadlineStats
    /\ rates = NoRates
    /\ ratesAt = 0
    /\ ratesAgain = NoRates
    /\ againAt = 0
    /\ record = NoRecord
    /\ nowTime = T0
    /\ inserted = <<>>

Bodies == [signatureCount : SignatureCounts, goal : Goals]

Deadlines ==
    {[present |-> FALSE, ms |-> 0]}
        \cup {[present |-> TRUE, ms |-> t] : t \in TimeRemainings}

AnalyticsInit ==
    \E v \in Variants, b \in Bodies, dl \in Deadlines, tbl \in Tables :
        AnalyticsStart(v, b, dl, tbl)

\* Parts I to III do not look at the arithmetic
AnalyticsOff ==
    AnalyticsStart("postgres", [signatureCount |-> 0, goal |-> 1000000],
                   [present |-> FALSE, ms |-> 0], <<>>)

\* const now ... deadlineStats = {...}
ComputeStats ==
    /\ apc = "fetched"
    /\ progressPercent' =
           ProgressPercent(progressData.signatureCount, progressData.goal)
    /\ remaining' = Remaining(progressData.signatureCount, progressData.goal)
    /\ deadlineStats' = DeadlineStats(variant, remaining', hasDeadline,
                                      timeRemaining)
    /\ apc' = "stats"
    /\ UNCHANGED <<variant, progressData, hasDeadline, timeRemaining, eciData,
                   rates, ratesAt, ratesAgain, againAt, record, nowTime,
                   inserted>>

\* a calculation that counts the snapshot of the running cycle as a row
CalculateWithCurrent(at) ==
    /\ apc = "stats"
    /\ variant = "postgres"
    /\ rates' = RatesOf(Window(Append(eciData,
                                      Row(at, progressData.signatureCount)),
                               at),
                        at, deadlineStats.required_per_day,
                        deadlineStats.required_per_hour)
    /\ ratesAt' = at
    /\ apc' = "rates"
    /\ UNCHANGED <<variant, progressData, hasDeadline, timeRemaining, eciData,
                   progressPercent, remaining, deadlineStats, ratesAgain,
                   againAt, record, nowTime, inserted>>

\* await calculateRatesAndPerformance(...) with the clock reading `at`
CalculateRatesAndPerformance(at) ==
    /\ apc = "stats"
    /\ variant = "postgres"
    /\ rates' = RatesOf(Window(eciData, at), at,
                        deadlineStats.required_per_day,
                        deadlineStats.required_per_hour)
    /\ ratesAt' = at
    /\ apc' = "rates"
    /\ UNCHANGED <<variant, progressData, hasDeadline, timeRemaining, eciData,
                   progressPercent, remaining, deadlineStats, ratesAgain,
                   againAt, record, nowTime, inserted>>

\* calculateRatesAndPerformance called once more with the same arguments
\* on the same table, the clock reading `at`
CalculateAgain(at) ==
    /\ apc = "rates"
    /\ ratesAgain' = RatesOf(Window(eciData, at), at,
                             deadlineStats.required_per_day,
                             deadlineStats.required_per_hour)
    /\ againAt' = at
    /\ apc' = "twice"
    /\ UNCHANGED <<variant, progressData, hasDeadline, timeRemaining, eciData,
                   progressPercent, remaining, deadlineStats, rates, ratesAt,
                   record, nowTime, inserted>>

\* the INSERT parameters (part_001) or statsData (index.js) go to the store
StoreRecord ==
    /\ apc \in (IF variant = "postgres" THEN {"rates", "twice"} ELSE {"stats"})
    /\ record' = [signatures |-> progressData.signatureCount,
                  goal |-> progressData.goal,
                  progress_percent |-> progressPercent,
                  required_per_day |-> deadlineStats.required_per_day,
                  on_track_daily |-> rates.on_track_daily]
    /\ apc' = "stored"
    /\ UNCHANGED <<variant, progressData, hasDeadline, timeRemaining, eciData,
                   progressPercent, remaining, deadlineStats, rates, ratesAt,
                   ratesAgain, againAt, nowTime, inserted>>

\* the most rows one run of cycles inserts
MaxRecords == 5

\* the time from one run that reaches the INSERT to the next: ten and
\* fourteen hours of the every-minute schedule, the runs between them
\* having been skipped or having failed
Intervals == {10 * MsPerHour, 14 * MsPerHour}

\* the bodies the counter source answers with from one cycle to the next
CycleBodies ==
    {b \in Bodies : b.goal = 1000000 /\ b.signatureCount \in {250000, 1000000}}

\* the deadlines of a run of cycles: none, and ten days after the first
CycleDeadlines ==
    {[present |-> FALSE, ms |-> 0], [present |-> TRUE, ms |-> 10 * MsPerDay]}

\* the first cycle after CREATE TABLE: eci_data is empty
CyclesInit ==
    \E b \in CycleBodies, dl \in CycleDeadlines :
        AnalyticsStart("postgres", b, dl, <<>>)

\* await pool.query(INSERT INTO eci_data ...) settles: the row carries the
\* cycle's now, its count and the rates computed before the INSERT; a
\* rejected INSERT stores nothing
InsertRow(ok) ==
    /\ apc = "stored"
    /\ variant = "postgres"
    /\ Len(inserted) < MaxRecords
    /\ IF ok
       THEN /\ eciData' = Append(eciData, Row(nowTime, record.signatures))
            /\ inserted' = Append(inserted,
                                  [timestamp |-> nowTime, rates |-> rates])
       ELSE UNCHANGED <<eciData, inserted>>
    /\ apc' = "inserted"
    /\ UNCHANGED <<variant, progressData, hasDeadline, timeRemaining,
                   progressPercent, remaining, deadlineStats, rates, ratesAt,
                   ratesAgain, againAt, record, nowTime>>

\* the next run of runMonitor, dt later: the counter answers b, now is read
NextRun(b, dt) ==
    /\ apc = "inserted"
    /\ nowTime + dt <= T0 + (MaxRecords - 1) * 10 * MsPerHour
    /\ progressData' = b
    /\ nowTime' = nowTime + dt
    /\ timeRemaining' = IF hasDeadline THEN timeRemaining - dt ELSE 0
    /\ apc' = "fetched"
    /\ UNCHANGED <<variant, hasDeadline, eciData, progressPercent, remaining,
                   deadlineStats, rates, ratesAt, ratesAgain, againAt, record,
                   inserted>>

\* ----------------------------------------------------------------------
\* Specifications
\* ----------------------------------------------------------------------

vars == <<serverVars, ghVars, slVars, anVars>>

\* Part I alone: the variables of Parts II and III stay at their initial
\* values
OnlyServer == UNCHANGED <<ghVars, slVars, anVars>>

Init ==
    /\ ServerInit
    /\ GitHubInit /\ configured = FALSE
    /\ ServerlessInit /\ env = "none"
    /\ AnalyticsOff

Next ==
    \/ Tick /\ OnlyServer
    \/ \E i \in Triggers : Trigger(i) /\ OnlyServer
    \/ \E i \in Triggers, ok \in BOOLEAN : CounterResponse(i, ok) /\ OnlyServer
    \/ \E i \in Triggers : CounterTimeout(i) /\ OnlyServer
    \/ \E i \in Triggers, ok \in BOOLEAN : CounterBody(i, ok) /\ OnlyServer
    \/ \E i \in Triggers, ok \in BOOLEAN : InfoResponse(i, ok) /\ OnlyServer
    \/ \E i \in Triggers : InfoTimeout(i) /\ OnlyServer
    \/ \E i \in Triggers, ok \in BOOLEAN : InfoBody(i, ok) /\ OnlyServer
    \/ \E i \in Triggers, ok \in BOOLEAN : CalcRates(i, ok) /\ OnlyServer
    \/ \E i \in Triggers, ok \in BOOLEAN : Insert(i, ok) /\ OnlyServer

Spec == Init /\ [][Next]_vars

\* The abort timers are the program's own: once armed they fire unless the
\* request settles first.  Nothing obliges a peer to answer.
FairSpec ==
    /\ Spec
    /\ \A i \in Triggers : WF_vars(CounterTimeout(i) /\ OnlyServer)
    /\ \A i \in Triggers : WF_vars(InfoTimeout(i) /\ OnlyServer)

\* Part II alone: the variables of Part I other than the clock stay put
ServerQuiet ==
    UNCHANGED <<isMonitorRunning, lastSuccessfulRun, errorCount, started, rows,
                pc, timer, deadline, now, performanceMetrics, logged, promise,
                slVars, anVars>>

InitGitHub ==
    /\ ServerInit /\ rows = <<>>
    /\ GitHubInit
    /\ ServerlessInit /\ env = "none"
    /\ AnalyticsOff

NextGitHub ==
    \/ \E j \in Callers : GhTrigger(j) /\ ServerQuiet
    \/ \E j \in Callers, ok \in BOOLEAN : GhCounter(j, ok) /\ ServerQuiet
    \/ \E j \in Callers, d \in ClosingDates : GhInfo(j, d) /\ ServerQuiet
    \/ \E j \in Callers, ok \in BOOLEAN : LatestGetSha(j, ok) /\ ServerQuiet
    \/ \E j \in Callers, ok \in BOOLEAN : LatestPut(j, ok) /\ ServerQuiet
    \/ \E j \in Callers, ok \in BOOLEAN : HistoryGetContent(j, ok) /\ ServerQuiet
    \/ \E j \in Callers, ok \in BOOLEAN : HistoryGetSha(j, ok) /\ ServerQuiet
    \/ \E j \in Callers, ok \in BOOLEAN : HistoryPut(j, ok) /\ ServerQuiet
    \/ \E j \in Callers : GhJoin(j) /\ ServerQuiet

SpecGitHub == InitGitHub /\ [][NextGitHub]_vars

\* src/index.js serving GET /history-stats while the cron job alone runs the
\* monitor
NextReads ==
    \/ GhTrigger("cron") /\ ServerQuiet
    \/ \E ok \in BOOLEAN : GhCounter("cron", ok) /\ ServerQuiet
    \/ \E d \in ClosingDates : GhInfo("cron", d) /\ ServerQuiet
    \/ \E ok \in BOOLEAN : LatestGetSha("cron", ok) /\ ServerQuiet
    \/ \E ok \in BOOLEAN : LatestPut("cron", ok) /\ ServerQuiet
    \/ \E ok \in BOOLEAN : HistoryGetContent("cron", ok) /\ ServerQuiet
    \/ \E ok \in BOOLEAN : HistoryGetSha("cron", ok) /\ ServerQuiet
    \/ \E ok \in BOOLEAN : HistoryPut("cron", ok) /\ ServerQuiet
    \/ GhJoin("cron") /\ ServerQuiet
    \/ \E ok \in BOOLEAN : HistoryStats(ok) /\ ServerQuiet

SpecReads == InitGitHub /\ [][NextReads]_vars

\* Part III alone: the variables of Parts I and II other than the clock stay
\* put
OnlyServerless ==
    UNCHANGED <<isMonitorRunning, lastSuccessfulRun, errorCount, started, rows,
                pc, timer, deadline, now, performanceMetrics, logged, promise,
                ghVars, anVars>>

InitServerless ==
    /\ ServerInit /\ rows = <<>>
    /\ GitHubInit /\ configured = FALSE
    /\ ServerlessInit
    /\ AnalyticsOff

NextServerless ==
    \/ \E q \in Requests : Invoke(q) /\ OnlyServerless
    \/ \E q \in Requests, o \in CounterOutcomes :
          CounterSettles(q, o) /\ OnlyServerless
    \/ \E q \in Requests, d \in ClosingDates :
          InfoSettles(q, d) /\ OnlyServerless
    \/ \E q \in Requests, ok \in BOOLEAN :
          SlLatestGetSha(q, ok) /\ OnlyServerless
    \/ \E q \in Requests, ok \in BOOLEAN :
          SlLatestPut(q, ok) /\ OnlyServerless
    \/ \E q \in Requests, ok \in BOOLEAN :
          SlGetComplete(q, ok) /\ OnlyServerless
    \/ \E q \in Requests, ok \in BOOLEAN :
          SlCompleteGetSha(q, ok) /\ OnlyServerless
    \/ \E q \in Requests, ok \in BOOLEAN :
          SlCompletePut(q, ok) /\ OnlyServerless

SpecServerless == InitServerless /\ [][NextServerless]_vars

\* Part IV alone: one cycle's arithmetic on every input
OnlyAnalytics == UNCHANGED <<serverVars, ghVars, slVars>>

InitAnalytics ==
    /\ ServerInit /\ rows = <<>>
    /\ GitHubInit /\ configured = FALSE
    /\ ServerlessInit /\ env = "none"
    /\ AnalyticsInit

NextAnalytics ==
    \/ ComputeStats /\ OnlyAnalytics
    \/ \E at \in ClockReadings :
          CalculateRatesAndPerformance(at) /\ OnlyAnalytics
    \/ \E at \in ClockReadings : CalculateAgain(at) /\ OnlyAnalytics
    \/ StoreRecord /\ OnlyAnalytics

SpecAnalytics == InitAnalytics /\ [][NextAnalytics]_vars

\* Part IV over a run of cycles of part_001, one after the other, from an
\* empty table
InitCycles ==
    /\ ServerInit /\ rows = <<>>
    /\ GitHubInit /\ configured = FALSE
    /\ ServerlessInit /\ env = "none"
    /\ CyclesInit

NextCycles ==
    \/ ComputeStats /\ OnlyAnalytics
    \/ CalculateRatesAndPerformance(nowTime) /\ OnlyAnalytics
    \/ StoreRecord /\ OnlyAnalytics
    \/ \E ok \in BOOLEAN : InsertRow(ok) /\ OnlyAnalytics
    \/ \E b \in CycleBodies, dt \in Intervals : NextRun(b, dt) /\ OnlyAnalytics

SpecCycles == InitCycles /\ [][NextCycles]_vars

\* ----------------------------------------------------------------------
\* Claims
\* ----------------------------------------------------------------------

\* the runMonitor() calls that are past the isMonitorRunning guard
InFlight == {i \in Triggers : pc[i] # "idle"}

\* the runMonitor() call of trigger i returns in this step
CycleEnds(i) == pc[i] # "idle" /\ pc'[i] = "idle"

\* C1: at most one runMonitor() call is past the guard in every reachable
\* state, and a call made while the flag is set returns as 'skipped' in the
\* same step: it starts no fetch, arms no timer and writes nothing.
C1_SingleExecution ==
    /\ [](Cardinality(InFlight) <= 1)
    /\ [][\A i \in Triggers :
            (isMonitorRunning /\ Trigger(i)) =>
                /\ logged'[i] = "skipped"
                /\ promise'[i] = "fulfilled"
                /\ UNCHANGED <<pc, timer, rows, isMonitorRunning,
                               lastSuccessfulRun, errorCount>>]_vars

\* one call is in flight and another trigger has been turned away
C1_Witness ==
    \E i, k \in Triggers :
        i # k /\ pc[i] = "insert" /\ logged[k] = "skipped" /\ pc[k] = "idle"

\* C2: every record whose append to the history completed without error
\* (reads that succeeded, 'History updated' logged) is in the stored history,
\* unless retention has trimmed it.
InHistory(r) == \E n \in 1..Len(ghHistory.content) : ghHistory.content[n] = r

TrimmedAway(r) ==
    /\ Len(ghHistory.content) = RetentionCap
    /\ \A n \in 1..Len(ghHistory.content) : ghHistory.content[n] > r

C2_NoLostSample ==
    \A j \in Callers :
        (hout[j] = "saved" /\ \A k \in Callers : hread[k] # "failed") =>
            (InHistory(rec[j]) \/ TrimmedAway(rec[j]))

\* C3: a writer whose PUT was answered with a conflict goes back to read a
\* fresh version token and tries again, instead of ending with the conflict.
C3_ConflictRetried ==
    [][\A j \in Callers :
         /\ (hpc[j] = "put" /\ hout'[j] = "conflict") => hpc'[j] = "getSha"
         /\ (lpc[j] = "put" /\ lout'[j] = "conflict") => lpc'[j] = "getSha"]_vars

\* C4: a cycle is reported as a success only if neither the write of the
\* latest projection nor the write of the history failed.
WriteFailed(out) == out \in {"conflict", "failed"}

C4_WriteFailureSurfaced ==
    \A j \in Callers :
        glogged[j] = "updated" => (~WriteFailed(lout[j]) /\ ~WriteFailed(hout[j]))

\* C5: when a run is reported successful, the latest projection is the last
\* element of the stored history (or neither file exists).
LatestIsTail ==
    IF ghHistory.sha = 0
    THEN ghLatest.sha = 0
    ELSE /\ ghLatest.sha # 0
         /\ ghLatest.content = <<ghHistory.content[Len(ghHistory.content)]>>

C5_LatestIsTailAfterRun ==
    [][\A j \in Callers :
         (gpc[j] = "saving" /\ gpc'[j] = "idle" /\ glogged'[j] = "updated")
             => LatestIsTail']_vars

\* C6: whenever a runMonitor() call that was past the guard returns, by
\* success or by a failure of any step, isMonitorRunning is false; the flag
\* is never set while no call is in flight, so the next trigger enters.
C6_GuardReleased ==
    /\ [](InFlight = {} => ~isMonitorRunning)
    /\ [][\A i \in Triggers :
            /\ CycleEnds(i) => ~isMonitorRunning'
            /\ (Trigger(i) /\ InFlight = {}) => pc'[i] = "fetchCounter"]_vars

\* a cycle failed, the flag is clear and another trigger has entered since
C6_Witness ==
    \E i, k \in Triggers :
        /\ i # k
        /\ logged[i] = "error" /\ pc[i] = "idle"
        /\ logged[k] = "running" /\ pc[k] = "fetchCounter"
        /\ errorCount >= 1

\* C7: every run that has entered Running eventually returns to Idle, given
\* only that the program's own timers fire.
C7_RunReturnsToIdle ==
    \A i \in Triggers : (pc[i] # "idle") ~> (pc[i] = "idle")

\* C8 as stated: a cycle in which any failure occurred - one that reached the
\* catch of runMonitor(), or the history read inside
\* calculateRatesAndPerformance - ends with errorCount incremented by one.
C8_EveryFailureCounted ==
    [][\A i \in Triggers :
         (CycleEnds(i) /\ (logged'[i] = "error" \/ performanceMetrics[i] = "fallback"))
             => errorCount' = errorCount + 1]_vars

\* a failure that reaches the try block of runMonitor()
RaisedInRunMonitor(i) ==
    \/ CounterResponse(i, FALSE)
    \/ CounterTimeout(i)
    \/ CounterBody(i, FALSE)
    \/ Insert(i, FALSE)

\* C8 amended: a failure of the counter source or of the INSERT is caught by
\* runMonitor(): errorCount goes up by one, the call returns with the flag
\* clear and its promise fulfilled; no promise of runMonitor() ever rejects.
\* A failed history read is absorbed by calculateRatesAndPerformance: the
\* counter is left alone and the cycle goes on to the INSERT.
C8_RaisedFailureCounted ==
    /\ [](\A i \in Triggers : promise[i] # "rejected")
    /\ [][\A i \in Triggers :
            /\ RaisedInRunMonitor(i) =>
                  /\ errorCount' = errorCount + 1
                  /\ ~isMonitorRunning'
                  /\ pc'[i] = "idle"
                  /\ promise'[i] = "fulfilled"
            /\ CalcRates(i, FALSE) =>
                  /\ errorCount' = errorCount
                  /\ pc'[i] = "insert"]_vars

\* two cycles in a row have failed and were counted
C8_Witness ==
    /\ errorCount = 2
    /\ ~isMonitorRunning
    /\ \E i \in Triggers : logged[i] = "error" /\ promise[i] = "fulfilled"

\* C9: errorCount starts at 0, a cycle that ends with its row inserted sets
\* it to 0, a cycle that ends without sets it one higher, and no other step
\* changes it.
C9_ErrorCountTracksFailures ==
    /\ errorCount = 0
    /\ [][IF \E i \in Triggers : CycleEnds(i)
          THEN IF rows' # rows
               THEN errorCount' = 0
               ELSE errorCount' = errorCount + 1
          ELSE errorCount' = errorCount]_vars

\* a failure was counted and a later success has reset the counter
C9_Witness ==
    /\ errorCount = 0
    /\ lastSuccessfulRun # NULL
    /\ \E i \in Triggers : logged[i] = "error"

\* C10: lastSuccessfulRun starts null; a step changes it only by completing
\* the INSERT of a cycle, to that cycle's `now`; a cycle that ends without
\* its row inserted leaves it as it was.
C10_LastSuccessfulRun ==
    /\ lastSuccessfulRun = NULL
    /\ [][/\ lastSuccessfulRun' # lastSuccessfulRun =>
                \E i \in Triggers :
                    /\ pc[i] = "insert" /\ pc'[i] = "idle"
                    /\ rows' = Append(rows, now[i])
                    /\ lastSuccessfulRun' = now[i]
          /\ \A i \in Triggers :
                (CycleEnds(i) /\ rows' = rows) => UNCHANGED lastSuccessfulRun]_vars

\* a cycle failed after an earlier one had succeeded
C10_Witness ==
    /\ lastSuccessfulRun # NULL
    /\ errorCount >= 1
    /\ \E i \in Triggers : logged[i] = "error" /\ pc[i] = "idle"

\* C11: a trigger that arrives while a run is in flight changes nothing but
\* its own 'skipped' line: the flag, lastSuccessfulRun, errorCount, the
\* table and the position, timer and locals of the run in flight stay as
\* they are; and the skipped call is not queued: a call gets past the guard
\* only in the step of its own trigger, with the flag clear.
C11_SkipIsNoOp ==
    [][/\ \A i \in Triggers :
            (isMonitorRunning /\ Trigger(i)) =>
                /\ UNCHANGED <<isMonitorRunning, lastSuccessfulRun, errorCount,
                               rows, clock, pc, timer, deadline, now,
                               performanceMetrics>>
                /\ \A k \in Triggers \ {i} :
                      logged'[k] = logged[k] /\ promise'[k] = promise[k]
       /\ \A i \in Triggers :
            (pc[i] = "idle" /\ pc'[i] # "idle") =>
                (~isMonitorRunning /\ Trigger(i))]_vars

\* a run is half-way while another trigger has been answered 'skipped'
C11_Witness ==
    \E i, k \in Triggers :
        /\ i # k
        /\ pc[i] = "calcRates"
        /\ logged[k] = "skipped" /\ promise[k] = "fulfilled" /\ pc[k] = "idle"

\* C12: a row is added only by the one call in flight, as the last step of
\* its cycle, while every other call is idle before and after: two triggers
\* fired together add one row, not two.
C12_OneRecordPerRun ==
    [][rows' # rows =>
         \E i \in Triggers :
             /\ pc[i] = "insert" /\ pc'[i] = "idle"
             /\ rows' = Append(rows, now[i])
             /\ \A k \in Triggers \ {i} : pc[k] = "idle" /\ pc'[k] = "idle"]_vars

\* from an empty table: one trigger saved, the other was skipped, one row
C12_Witness ==
    \E i, k \in Triggers :
        /\ i # k
        /\ logged[i] = "saved" /\ logged[k] = "skipped"
        /\ InFlight = {}
        /\ errorCount = 0
        /\ Len(rows) = 1 /\ rows[1] >= 1

\* C13: GET /monitor answers success only when the cycle it invoked stored
\* its row, and answers with a failure when that cycle failed.
C13_ManualReportsOutcome ==
    /\ MonitorResponse = "success" => logged["manual"] \in {"saved", "skipped"}
    /\ logged["manual"] = "error" => MonitorResponse = "failure"

\* C14: retention trims only from the front: when the history read finds
\* exactly RetentionCap records, the sequence that addToHistoryOnGitHub builds
\* is those records without the oldest one, in their order, followed by the
\* new record, so it again holds exactly RetentionCap records.
C14_TrimFromFront ==
    [][\A j \in Callers :
          (/\ hpc[j] = "getContent" /\ hpc'[j] = "getSha"
           /\ hread'[j] = "found"
           /\ Len(ghHistory.content) = RetentionCap) =>
              /\ hnew'[j] = Tail(ghHistory.content) \o <<rec[j]>>
              /\ Len(hnew'[j]) = RetentionCap]_vars

\* a full history has been read and the trimmed sequence is ready to be put
C14_Witness ==
    \E j \in Callers :
        /\ hpc[j] = "getSha" /\ hread[j] = "found"
        /\ Len(ghHistory.content) = RetentionCap
        /\ hnew[j] = Tail(ghHistory.content) \o <<rec[j]>>

\* C15: the stored history never holds more than RetentionCap records.
C15_HistoryWithinCap == Len(ghHistory.content) <= RetentionCap

\* the stored history is full and its oldest record has been trimmed away
C15_Witness ==
    /\ Len(ghHistory.content) = RetentionCap
    /\ ghHistory.content[1] > 1

\* C16: the history is append-only: whenever the stored history changes, the
\* sequence stored before, minus the entries retention trims from its front,
\* is a prefix of the sequence stored after, whatever the history read met.
KeptByRetention(h) ==
    IF Len(h) + 1 > RetentionCap
    THEN SubSeq(h, Len(h) + 2 - RetentionCap, Len(h))
    ELSE h

IsPrefix(p, h) == Len(p) <= Len(h) /\ SubSeq(h, 1, Len(p)) = p

C16_AppendOnly ==
    [][ghHistory'.content # ghHistory.content =>
          IsPrefix(KeptByRetention(ghHistory.content), ghHistory'.content)]_vars

C19_DescriptionFailureNonFatal ==
    [][\A j \in Callers :
          (gpc[j] = "fetchInfo" /\ gpc'[j] # "fetchInfo") =>
              gpc'[j] = "saving"]_vars

\* C17: with the store configuration missing, no cycle ever has a request to
\* the backing medium in flight.
C17_DisabledStoreUntouched ==
    [][env # "full" => \A q \in Requests : spc'[q] \notin StoreSteps]_vars

\* C20: no record built from a failed answer of the counter source is ever
\* stored, neither in the latest file nor in the complete history.
Stored(file) == {file.content[n] : n \in 1..Len(file.content)}

C20_CounterFailureStoresNothing ==
    \A r \in Stored(slLatest) \cup Stored(slComplete) : r.counted

\* C21: every record that reaches the store has a count of at least zero
\* and a goal above zero.
C21_StoredRecordsValid ==
    apc = "stored" => record.signatures >= 0 /\ record.goal > 0

\* C22: each required figure is undefined when the deadline is absent or
\* when the time remaining, floored to that figure's own unit, is not
\* positive; otherwise it is remaining divided by that floored time.  The
\* units are decided one by one, and a deadline in the past leaves all four
\* undefined.
RequiredAsClaimed(figure, msPerUnit) ==
    IF ~hasDeadline \/ timeRemaining \div msPerUnit <= 0
    THEN ~figure.def
    ELSE figure = Frac(remaining, timeRemaining \div msPerUnit)

C22_RequiredPerUnit ==
    apc # "fetched" =>
        /\ RequiredAsClaimed(deadlineStats.required_per_day, MsPerDay)
        /\ RequiredAsClaimed(deadlineStats.required_per_hour, MsPerHour)
        /\ RequiredAsClaimed(deadlineStats.required_per_minute, MsPerMinute)
        /\ RequiredAsClaimed(deadlineStats.required_per_second, MsPerSecond)
        /\ (hasDeadline /\ timeRemaining < 0) =>
               /\ ~deadlineStats.required_per_day.def
               /\ ~deadlineStats.required_per_hour.def
               /\ ~deadlineStats.required_per_minute.def
               /\ ~deadlineStats.required_per_second.def

\* one hour is left: the hourly figure is defined, the daily one is not
C22_Witness ==
    /\ apc = "stats" /\ hasDeadline /\ timeRemaining = MsPerHour
    /\ remaining = 750000
    /\ deadlineStats.required_per_hour = Whole(750000)
    /\ deadlineStats.required_per_minute = Whole(12500)
    /\ ~deadlineStats.required_per_day.def

\* C23 (as claimed): whenever at least one whole day is left the record has
\* a weekly required figure, seven times the daily one.
DaysLeft == timeRemaining \div MsPerDay

C23_WeeklyInEveryVariant ==
    (apc # "fetched" /\ hasDeadline /\ DaysLeft > 0) =>
        /\ deadlineStats.required_per_week.def
        /\ deadlineStats.required_per_week =
               Mul(deadlineStats.required_per_day, Whole(7))

\* C23 (amended): the GitHub variant computes the weekly figure as seven
\* times the daily one whenever a whole day is left, 100,000 a day and
\* 700,000 a week for 1,000,000 remaining and ten days; the PostgreSQL
\* variant has the same daily figure and no weekly figure.
TenDaysOneMillion ==
    hasDeadline /\ timeRemaining = 10 * MsPerDay /\ remaining = 1000000

C23_WeeklyIsSevenDaily ==
    apc # "fetched" =>
        /\ (variant = "github" /\ hasDeadline /\ DaysLeft > 0) =>
               /\ deadlineStats.required_per_week.def
               /\ deadlineStats.required_per_week =
                      Mul(deadlineStats.required_per_day, Whole(7))
        /\ TenDaysOneMillion =>
               deadlineStats.required_per_day = Whole(100000)
        /\ (variant = "github" /\ TenDaysOneMillion) =>
               deadlineStats.required_per_week = Whole(700000)
        /\ variant = "postgres" => ~deadlineStats.required_per_week.def

\* the GitHub variant has computed the figures of the ten-day example
C23_Witness ==
    /\ apc = "stats" /\ variant = "github" /\ TenDaysOneMillion
    /\ deadlineStats.required_per_week = Whole(700000)

RatesComputed == variant = "postgres" /\ apc \in {"rates", "twice", "stored"}

Seen == Window(eciData, ratesAt)

Elapsed(w) == w[Len(w)].timestamp - w[1].timestamp

Growth(w) == w[Len(w)].signatures - w[1].signatures

\* C25: every observed figure is undefined when the window holds fewer
\* than two snapshots or when no time lies between its earliest and its
\* latest snapshot.
C25_ObservedUndefined ==
    (RatesComputed /\ (Len(Seen) < 2 \/ Elapsed(Seen) = 0)) =>
        /\ ~rates.actual_per_minute.def
        /\ ~rates.actual_per_hour.def
        /\ ~rates.actual_per_day.def
        /\ ~rates.actual_per_week.def

\* the window holds two snapshots of the same instant
C25_Witness ==
    /\ RatesComputed /\ Len(Seen) = 2 /\ Elapsed(Seen) = 0
    /\ Growth(Seen) = 4
    /\ ~rates.actual_per_hour.def

\* C26: with two or more snapshots and time between the first and the
\* last, each observed figure times the elapsed time in its unit gives back
\* the growth between those two snapshots, no rounding in between; 1000
\* and, an hour later, 1600 signatures give 600 an hour and 10 a minute.
ObservedAsClaimed(figure, msPerUnit) ==
    /\ figure.def
    /\ Mul(figure, Frac(Elapsed(Seen), msPerUnit)) = Whole(Growth(Seen))

OneHourExample ==
    Seen = <<Row(T0 - 2 * MsPerHour, 1000), Row(T0 - MsPerHour, 1600)>>

C26_ObservedPerUnit ==
    (RatesComputed /\ Len(Seen) >= 2 /\ Elapsed(Seen) > 0) =>
        /\ ObservedAsClaimed(rates.actual_per_minute, MsPerMinute)
        /\ ObservedAsClaimed(rates.actual_per_hour, MsPerHour)
        /\ ObservedAsClaimed(rates.actual_per_day, MsPerDay)
        /\ ObservedAsClaimed(rates.actual_per_week, 7 * MsPerDay)
        /\ OneHourExample =>
               /\ rates.actual_per_hour = Whole(600)
               /\ rates.actual_per_minute = Whole(10)

\* the rates of the one-hour example have been computed
C26_Witness ==
    /\ RatesComputed /\ OneHourExample
    /\ rates.actual_per_hour = Whole(600)
    /\ rates.actual_per_day = Whole(14400)

\* C27: each on-track flag is the comparison observed >= required whenever
\* both figures are defined, a figure of 0 included, and null exactly when
\* one of them is undefined.
FlagAsClaimed(flag, required, actual) ==
    flag = IF required.def /\ actual.def
           THEN IF AtLeast(actual, required) THEN "true" ELSE "false"
           ELSE "null"

C27_OnTrackFlags ==
    RatesComputed =>
        /\ FlagAsClaimed(rates.on_track_daily,
                         deadlineStats.required_per_day, rates.actual_per_day)
        /\ FlagAsClaimed(rates.on_track_hourly,
                         deadlineStats.required_per_hour,
                         rates.actual_per_hour)

\* C28: the trend is unknown when the last 24 hours or the 24 hours before
\* them hold fewer than two snapshots; otherwise it is accelerating when the
\* recent hourly rate is above 1.10 times the previous one, slowing when it
\* is below 0.90 times the previous one, and steady in every other case.
Between(w, from, to) ==
    LET Inside(r) == from <= r.timestamp /\ r.timestamp < to
    IN  SelectSeq(w, Inside)

RecentRows == Between(Seen, ratesAt - 24 * MsPerHour, ratesAt + MsPerDay)

PreviousRows ==
    Between(Seen, ratesAt - 48 * MsPerHour, ratesAt - 24 * MsPerHour)

TrendAsClaimed ==
    IF Len(RecentRows) < 2 \/ Len(PreviousRows) < 2 THEN "unknown"
    ELSE IF Greater(HourlyRate(RecentRows),
                    Mul(HourlyRate(PreviousRows), Frac(110, 100)))
         THEN "accelerating"
    ELSE IF Less(HourlyRate(RecentRows),
                 Mul(HourlyRate(PreviousRows), Frac(90, 100)))
         THEN "slowing"
    ELSE "steady"

C28_Trend == RatesComputed => rates.velocity_trend = TrendAsClaimed

\* a recent rate of 111 against 100 has been classified
C28_Witness ==
    /\ RatesComputed /\ Len(RecentRows) = 2 /\ Len(PreviousRows) = 2
    /\ HourlyRate(RecentRows) = Whole(111)
    /\ HourlyRate(PreviousRows) = Whole(100)
    /\ rates.velocity_trend = "accelerating"

\* C29 (as claimed): hourly rates of 110 against 100 are accelerating, 90
\* against 100 slowing, 95 against 100 steady.
RatesAre(recent, previous) ==
    /\ RatesComputed /\ Len(RecentRows) >= 2 /\ Len(PreviousRows) >= 2
    /\ HourlyRate(RecentRows) = Whole(recent)
    /\ HourlyRate(PreviousRows) = Whole(previous)

C29_TrendExamples ==
    /\ RatesAre(110, 100) => rates.velocity_trend = "accelerating"
    /\ RatesAre(90, 100) => rates.velocity_trend = "slowing"
    /\ RatesAre(95, 100) => rates.velocity_trend = "steady"

\* C29 (amended): the thresholds are exclusive: 110 against 100 and 90
\* against 100 are steady, as is 95 against 100; 111 against 100 is
\* accelerating and 89 against 100 is slowing.
C29_TrendExamplesExclusive ==
    /\ RatesAre(110, 100) => rates.velocity_trend = "steady"
    /\ RatesAre(90, 100) => rates.velocity_trend = "steady"
    /\ RatesAre(95, 100) => rates.velocity_trend = "steady"
    /\ RatesAre(111, 100) => rates.velocity_trend = "accelerating"
    /\ RatesAre(89, 100) => rates.velocity_trend = "slowing"

\* a recent rate of exactly 110 against 100 has been classified
C29_Witness == RatesAre(110, 100) /\ rates.velocity_trend = "steady"

\* C30: computing the rates twice for the same arguments on the same table
\* gives the same result.
C30_SameInputsSameRates == apc = "twice" => ratesAgain = rates

\* C33: calculateRatesAndPerformance only reads: no step into it or out of
\* it changes the rows of the table.
C33_EngineReadsOnly ==
    [][(\E i \in Triggers : pc[i] = "calcRates" \/ pc'[i] = "calcRates") =>
          rows' = rows]_vars

\* calculateRatesAndPerformance has returned its rates over a stored row
C33_Witness ==
    \E i \in Triggers :
        /\ pc[i] = "insert" /\ performanceMetrics[i] = "computed"
        /\ Len(rows) >= 1

\* C34: calculateRatesAndPerformance never raises: whether or not its
\* history read fails the cycle goes on to the INSERT with no error counted,
\* and a cycle that got the all-null fallback and whose INSERT succeeds is
\* recorded as a success.
C34_RatesNeverRaise ==
    [][\A i \in Triggers :
          /\ (pc[i] = "calcRates" /\ pc'[i] # "calcRates") =>
                 /\ pc'[i] = "insert"
                 /\ performanceMetrics'[i] \in {"computed", "fallback"}
                 /\ errorCount' = errorCount
                 /\ logged'[i] = logged[i]
                 /\ isMonitorRunning'
          /\ (/\ pc[i] = "insert" /\ performanceMetrics[i] = "fallback"
              /\ rows' # rows) =>
                 /\ rows' = Append(rows, now[i])
                 /\ errorCount' = 0
                 /\ lastSuccessfulRun' = now[i]
                 /\ logged'[i] = "saved"]_vars

\* the history read has failed after an earlier failed cycle, and the cycle
\* waits for its INSERT
C34_Witness ==
    \E i \in Triggers :
        /\ pc[i] = "insert" /\ performanceMetrics[i] = "fallback"
        /\ errorCount = 1

\* C37: lastSuccessfulRun, once set, is the timestamp of the row inserted
\* last; a successful cycle sets it to the timestamp of the row it inserts;
\* it never decreases.
C37_LastRunIsStoredTimestamp ==
    /\ lastSuccessfulRun # NULL =>
           (Len(rows) >= 1 /\ rows[Len(rows)] = lastSuccessfulRun)
    /\ [][/\ lastSuccessfulRun' >= lastSuccessfulRun
          /\ rows' # rows =>
                 lastSuccessfulRun' = rows'[Len(rows')]]_vars

\* two cycles have succeeded at different times
C37_Witness ==
    /\ Len(rows) >= 2
    /\ lastSuccessfulRun = rows[Len(rows)]
    /\ rows[Len(rows) - 1] < lastSuccessfulRun
    /\ clock > lastSuccessfulRun

\* C32: the capture timestamps of the stored history are non-decreasing from
\* the first element to the last, whatever the interleaving of the cron run
\* and the manual run.
C32_HistoryInCaptureOrder ==
    \A a, b \in 1..Len(ghHistory.content) :
        a < b => ghHistory.content[a] <= ghHistory.content[b]

\* C38: the write of the latest file and the append to the history are
\* independent: both are started together, a step of one leaves the other
\* where it was, a failed one leaves the other able to go on, and the cycle
\* ends with its success line whatever the two outcomes were.
C38_WritesIndependent ==
    [][\A j \in Callers :
          /\ (gpc[j] # "saving" /\ gpc'[j] = "saving" /\ configured) =>
                 (lpc'[j] = "getSha" /\ hpc'[j] = "getContent")
          /\ (gpc[j] = "saving" /\ lpc'[j] # lpc[j]) =>
                 /\ hpc'[j] = hpc[j] /\ hout'[j] = hout[j]
                 /\ hnew'[j] = hnew[j] /\ hsha'[j] = hsha[j]
                 /\ gpc'[j] = "saving"
          /\ (gpc[j] = "saving" /\ hpc'[j] # hpc[j]) =>
                 /\ lpc'[j] = lpc[j] /\ lout'[j] = lout[j]
                 /\ lsha'[j] = lsha[j]
                 /\ gpc'[j] = "saving"
          /\ (gpc[j] = "saving" /\ gpc'[j] # "saving") =>
                 /\ lpc[j] = "done" /\ hpc[j] = "done"
                 /\ gpc'[j] = "idle" /\ glogged'[j] = "updated"]_vars

\* one cycle has ended with the latest write failed and the history saved,
\* the other with the history write failed and the latest saved
C38_Witness ==
    \E j, k \in Callers :
        /\ gpc[j] = "idle" /\ glogged[j] = "updated"
        /\ WriteFailed(lout[j]) /\ hout[j] = "saved"
        /\ gpc[k] = "idle" /\ glogged[k] = "updated"
        /\ WriteFailed(hout[k]) /\ lout[k] = "saved"

\* C39: when the read of the stored history fails, the array to write is
\* the new record alone, and a PUT that succeeds stores exactly that.
C39_UnreadableHistoryStartsEmpty ==
    [][\A j \in Callers :
          /\ (hpc[j] = "getContent" /\ hread'[j] = "failed") =>
                 hnew'[j] = <<rec[j]>>
          /\ (hpc[j] = "put" /\ hread[j] = "failed"
              /\ hout'[j] = "saved") =>
                 ghHistory'.content = <<rec[j]>>]_vars

\* a stored history existed, its read failed, and the PUT replaced it by
\* the new record alone
C39_Witness ==
    \E j \in Callers :
        /\ hread[j] = "failed" /\ hout[j] = "saved"
        /\ ghHistory.sha >= 2
        /\ ghHistory.content = <<rec[j]>>

\* C31: no figure of a stored record comes from a division by zero or by a
\* negative number: the progress percent, every required figure and every
\* observed figure is either undefined or a finite quotient with a positive
\* denominator, and a trend is classified from finite hourly rates only.
FiniteOrNull(x) == ~x.def \/ x.d # 0

C31_NoUnguardedDivision ==
    apc = "stored" =>
        /\ record.progress_percent.def =>
               (progressData.goal > 0 /\ record.progress_percent.d # 0)
        /\ \A f \in {deadlineStats.required_per_week,
                      deadlineStats.required_per_day,
                      deadlineStats.required_per_hour,
                      deadlineStats.required_per_minute,
                      deadlineStats.required_per_second,
                      rates.actual_per_minute, rates.actual_per_hour,
                      rates.actual_per_day, rates.actual_per_week} :
               FiniteOrNull(f)
        /\ rates.velocity_trend # "unknown" =>
               /\ FiniteOrNull(HourlyRate(Last24h(Seen, ratesAt)))
               /\ FiniteOrNull(HourlyRate(Prev24h(Seen, ratesAt)))

\* C36: the required figures are defined from the finest unit upwards: per
\* day defined implies per hour, per hour implies per minute, per minute
\* implies per second.
C36_RequiredByGranularity ==
    /\ deadlineStats.required_per_day.def =>
           deadlineStats.required_per_hour.def
    /\ deadlineStats.required_per_hour.def =>
           deadlineStats.required_per_minute.def
    /\ deadlineStats.required_per_minute.def =>
           deadlineStats.required_per_second.def

\* a deadline exactly one day ahead: all four figures are defined
C36_Witness ==
    /\ apc = "stats"
    /\ timeRemaining = MsPerDay
    /\ deadlineStats.required_per_day.def
    /\ deadlineStats.required_per_hour.def
    /\ deadlineStats.required_per_minute.def
    /\ deadlineStats.required_per_second.def

\* C35: observed pace comes from the rows stored before the insertion
\* only: starting from an empty table the first and the second stored row
\* have every observed figure null and the trend 'unknown', and no row has
\* a trend other than 'unknown' before four earlier rows are stored.
C35_ObservedFromEarlierRows ==
    \A n \in 1..Len(inserted) :
        /\ n <= 2 =>
               /\ ~inserted[n].rates.actual_per_minute.def
               /\ ~inserted[n].rates.actual_per_hour.def
               /\ ~inserted[n].rates.actual_per_day.def
               /\ ~inserted[n].rates.actual_per_week.def
               /\ inserted[n].rates.velocity_trend = "unknown"
        /\ n <= 4 => inserted[n].rates.velocity_trend = "unknown"

\* five rows are stored: the third has an observed figure, the fifth a trend
C35_Witness ==
    /\ Len(inserted) = 5
    /\ inserted[3].rates.actual_per_day.def
    /\ inserted[5].rates.velocity_trend # "unknown"

====
